---- MODULE Spec2Model ----
(***************************************************************************)
(* Bonding and accountability engine of selectConnect / NoirCard.          *)
(*                                                                         *)
(* The model covers                                                        *)
(*   - the AbuseEscrow ledger (postBond / slashBond circuits as written in *)
(*     TUTORIAL.md, the getBond / refundBond entry points declared in the  *)
(*     relay's ABI),                                                       *)
(*   - the queue-backed relay (NoirCardRelay with a Bull queue),           *)
(*   - the timer-backed relay (relay/RelayService.ts, setTimeout),         *)
(*   - the Cardano bridge (lib/mesh-connector.ts),                         *)
(*   - the command-line demo (SelectConnectDemo).                          *)
(*                                                                         *)
(* Time is counted in ticks of one second; Date.now() is DateNow(now).     *)
(***************************************************************************)
EXTENDS Integers, Sequences, FiniteSets, TLC

(***************************************************************************)
(* Bounds of the model.                                                    *)
(***************************************************************************)
MaxTime == 4
MaxBonds == 1
MaxJobs == 1
MaxTimers == 2
MaxEngage == 1
MaxAttestations == 2

(***************************************************************************)
(* Program constants.                                                      *)
(***************************************************************************)
\* The ledger's clock counts seconds, the relay's Date.now() milliseconds.
\* One tick of the model's clock stands for one unit of every duration the
\* program waits for: a challenge window (hours), a retry delay (2000 ms).
MsPerSecond == 1000
JobAttempts == 3
BackoffDelay == 1
LegacyChallengeWindow == 1

Cards == {"c1"}
Senders == {"s1"}
Amounts == {3, 5}
TTLs == {1, 2}
ChallengeWindows == {0, 1}
Attestors == {"admin", "guardian", "stranger"}
NoStamp == -1

Times == 1..MaxTime

\* Date.now(): milliseconds
DateNow(t) == t * MsPerSecond

\* Math.floor(Date.now() / 1000)
NowSeconds(t) == DateNow(t) \div MsPerSecond

\* lovelace per ADA (mesh-connector: amountADA * 1_000_000)
LovelacePerADA == 1000000

VARIABLES
    now,                \* wall clock, seconds
    running,            \* the relay process is up
    bonds,              \* ledger: ids of the bonds posted
    bond_meta,          \* ledger: id -> bond record
    sender_reputation,  \* ledger: senderCommit -> [totalBonds, slashedCount]
    safety_pools,       \* ledger: cardId -> balance
    slashed_bonds,      \* ledger: ids slashed with evidence
    queue,              \* Bull queue 'bond slashing' (kept in Redis)
    attestations,       \* Redis keys attestation:<id>
    timers,             \* setTimeout handles of the timer-backed relay (process memory)
    engage,             \* handleRecipientEngagement calls between getBond and refundBond
    filed,              \* attestations answered with success = true
    lastCall,           \* the ledger, attestation or forwarding call answered last
    escrowUtxo,         \* Cardano: bond id -> "none" | "locked" | "spent"
    poolLovelace,       \* Cardano: lovelace received by the safety pool address
    senderLovelace,     \* Cardano: lovelace refunded to the sender's wallet
    demoBonds,          \* SelectConnectDemo.bonds: id -> state
    rate_limit,         \* Redis keys rate_limit:<senderCommit>: requests counted
    passed,             \* requests the rate limiter let through in the current window
    msgKeys,            \* Redis keys msg:<messageHash> (duplicate detection)
    verification,       \* the BondVerificationResult returned last
    evidence,           \* Redis keys evidence:<evidenceHash>
    delivered,          \* messages handed to the recipient's channel
    receipts,           \* messages for which the two receipts were issued
    calls,              \* verifyBondForMessage calls in flight, each at one of its awaits
    redisUp,            \* the Redis server answers
    accessLinks,        \* SelectConnectDemo.accessLinks: link id -> link record
    commits,            \* sender commitments derived so far, with their inputs
    retry               \* the retryOperation call in progress

vars == <<now, running, bonds, bond_meta, sender_reputation, safety_pools,
          slashed_bonds, queue, attestations, timers, engage, filed,
          lastCall, escrowUtxo, poolLovelace, senderLovelace, demoBonds,
          rate_limit, passed, msgKeys, verification, evidence, delivered, receipts,
          calls, redisUp, accessLinks, commits, retry>>

ledgerVars == <<bonds, bond_meta, sender_reputation, safety_pools, slashed_bonds>>
relayVars == <<queue, attestations, timers, engage, filed>>
bridgeVars == <<escrowUtxo, poolLovelace, senderLovelace>>
callVars == <<calls, redisUp>>
demoVars == <<accessLinks, commits>>
msgVars == <<rate_limit, passed, msgKeys, verification, evidence, delivered, receipts,
             callVars>>

\* what a caller gets back
returned(op, caller, bondId, result) ==
    [op |-> op, caller |-> caller, bondId |-> bondId, result |-> result]

(***************************************************************************)
(* Bond identifiers.                                                       *)
(***************************************************************************)
\* queue-backed relay: sha256(`${cardId}:${senderCommit}:${Date.now()}`)
getBondId(cardId, senderCommit, t) == <<cardId, senderCommit, DateNow(t)>>

\* timer-backed relay: keccak256(cardId + senderCommit)
legacyGetBondId(cardId, senderCommit) == <<cardId, senderCommit, NoStamp>>

Stamps == {NoStamp} \cup {DateNow(t) : t \in Times}
BondIds == Cards \X Senders \X Stamps

\* generateBondId() of the postBond circuit is opaque: the identifier of a new
\* bond is any value either relay could later recompute for the pair.
generateBondId(cardId, senderCommit, t) ==
    {legacyGetBondId(cardId, senderCommit), getBondId(cardId, senderCommit, t)} \ bonds

(***************************************************************************)
(* AbuseEscrow ledger.                                                     *)
(***************************************************************************)
BondStates == {"POSTED", "FROZEN", "REFUNDED", "SLASHED", "EXPIRED"}
Terminal == {"REFUNDED", "SLASHED", "EXPIRED"}

\* card_policies entry written by createCard: (cardId, requiresBond, minBondAmount, 86400, 3)
requiresBond(cardId) == TRUE
minBondAmount(cardId) == 3

\* card_admins entry written by createCard; the relay signs for the admin
requireCardAdmin(cardId, caller) == caller \in {"admin", "relay"}

calculateRequiredBond_FirstOffenceOnly(minBond, reputation) ==
    IF reputation.slashedCount = 1 THEN 10 * minBond ELSE minBond

\* calculateRequiredBond(minBond, reputation) as the scenario tests pin it: the
\* card's minimum for a sender never slashed, PenaltyFactor times it afterwards
\* (minimum 5, one slash: 50; minimum 100, a known spammer: 1000)
PenaltyFactor == 10
calculateRequiredBond(minBond, reputation) ==
    IF reputation.slashedCount > 0 THEN PenaltyFactor * minBond ELSE minBond

getSenderReputation(senderCommit) == sender_reputation[senderCommit]

\* a reputation with n recorded slashes
reputationWith(n) == [totalBonds |-> 0, slashedCount |-> n]

\* contract.calculateBondCost(cardId, senderId)
calculateBondCost(cardId, senderCommit) ==
    calculateRequiredBond(minBondAmount(cardId), getSenderReputation(senderCommit))

postBondResult_NoReputation(cardId, senderCommit, amount) ==
    IF ~requiresBond(cardId) THEN "Card doesn't require bond"
    ELSE IF amount < minBondAmount(cardId) THEN "Insufficient bond amount"
    ELSE "ok"

\* postBond circuit: the three require statements
postBondResult(cardId, senderCommit, amount) ==
    IF ~requiresBond(cardId) THEN "Card doesn't require bond"
    ELSE IF amount < minBondAmount(cardId) THEN "Insufficient bond amount"
    ELSE IF amount < calculateRequiredBond(minBondAmount(cardId),
                                           getSenderReputation(senderCommit))
         THEN "Higher bond required due to reputation"
    ELSE "ok"

\* slashBond circuit: get(bond_meta, bondId), requireCardAdmin, require(state == POSTED)
slashBondResult_AnyState(bondId, caller) ==
    IF bondId \notin bonds THEN "NotFound"
    ELSE IF ~requireCardAdmin(bond_meta[bondId].cardId, caller) THEN "Unauthorized"
    ELSE "ok"

slashBondResult_NotSlashed(bondId, caller) ==
    IF bondId \notin bonds THEN "NotFound"
    ELSE IF ~requireCardAdmin(bond_meta[bondId].cardId, caller) THEN "Unauthorized"
    ELSE IF bond_meta[bondId].state = "SLASHED" THEN "Bond not in POSTED state"
    ELSE "ok"

slashBondResult_FrozenOnly(bondId, caller) ==
    IF bondId \notin bonds THEN "NotFound"
    ELSE IF ~requireCardAdmin(bond_meta[bondId].cardId, caller) THEN "Unauthorized"
    ELSE IF bond_meta[bondId].state # "FROZEN" THEN "Bond not in FROZEN state"
    ELSE "ok"

slashBondResult(bondId, caller) ==
    IF bondId \notin bonds THEN "NotFound"
    ELSE IF ~requireCardAdmin(bond_meta[bondId].cardId, caller) THEN "Unauthorized"
    ELSE IF bond_meta[bondId].state # "POSTED" THEN "Bond not in POSTED state"
    ELSE "ok"

slashBond_ReputationKept(bondId, caller) ==
    IF slashBondResult(bondId, caller) = "ok"
    THEN /\ bond_meta' = [bond_meta EXCEPT ![bondId].state = "SLASHED"]
         /\ safety_pools' =
                [safety_pools EXCEPT ![bond_meta[bondId].cardId] = @ + bond_meta[bondId].amount]
         /\ slashed_bonds' = slashed_bonds \cup {bondId}
         /\ UNCHANGED <<bonds, sender_reputation>>
    ELSE UNCHANGED ledgerVars

\* slashBond circuit: the ledger updates after the requires
slashBond(bondId, caller) ==
    IF slashBondResult(bondId, caller) = "ok"
    THEN /\ bond_meta' = [bond_meta EXCEPT ![bondId].state = "SLASHED"]
         /\ sender_reputation' =
                [sender_reputation EXCEPT ![bond_meta[bondId].senderCommit].slashedCount = @ + 1]
         /\ safety_pools' =
                [safety_pools EXCEPT ![bond_meta[bondId].cardId] = @ + bond_meta[bondId].amount]
         /\ slashed_bonds' = slashed_bonds \cup {bondId}
         /\ UNCHANGED bonds
    ELSE UNCHANGED ledgerVars

\* refundBond(bondId): legal from POSTED, FROZEN, EXPIRED; a no-op on REFUNDED
refundBondResult(bondId) ==
    IF bondId \notin bonds THEN "NotFound"
    ELSE IF bond_meta[bondId].state = "REFUNDED" THEN "ok"
    ELSE IF bond_meta[bondId].state \in {"POSTED", "FROZEN", "EXPIRED"} THEN "ok"
    ELSE "InvalidTransition"

refundBond(bondId) ==
    IF refundBondResult(bondId) = "ok"
    THEN /\ bond_meta' = [bond_meta EXCEPT ![bondId].state = "REFUNDED"]
         /\ UNCHANGED <<bonds, sender_reputation, safety_pools, slashed_bonds>>
    ELSE UNCHANGED ledgerVars

\* getBond(bondId) as declared in the ABI: expiresAt, refunded, slashed
getBond(bondId) ==
    [expiresAt |-> bond_meta[bondId].expiresAt,
     refunded  |-> bond_meta[bondId].state = "REFUNDED",
     slashed   |-> bond_meta[bondId].state = "SLASHED"]


(***************************************************************************)
(* Initial state: a relay just constructed, an empty ledger.               *)
(***************************************************************************)
NoBond == <<>>

\* a retryOperation call: where it stands, the operation it wraps, the
\* attempt of the loop, how often the operation was invoked, the delays
\* waited (ms), when the pending wait ends, and the error caught last
NoRetry ==
    [pc |-> "idle", operation |-> "none", attempt |-> 0, invoked |-> 0,
     waited |-> <<>>, due |-> 0, lastError |-> "none"]

\* SelectConnectDemo.accessLinks: the link ids in use, and an absent entry
Links == {"l1"}
NoLink == [expiresAt |-> 0, currentLevel |-> -1, isRevoked |-> FALSE]

\* a BondVerificationResult: verified, reason, the bond id given with
\* verified: true, the amount quoted with NO_ACTIVE_BOND and the retryAfter
\* given with RATE_LIMITED
verificationResult(message, reason, bondId, requiredBondAmount, retryAfter) ==
    [verified           |-> (reason = "verified"),
     reason             |-> reason,
     message            |-> message,
     bondId             |-> bondId,
     requiredBondAmount |-> requiredBondAmount,
     retryAfter         |-> retryAfter]
NoVerification == verificationResult("none", "none", NoBond, 0, 0)

\* concurrent verifyBondForMessage calls
Requests == {"r1", "r2"}
\* a call: where it stands, its arguments, the reputation it read, and once
\* it is done the BondVerificationResult it returned (reason, error, retryAfter)
call(pc, senderCommit, message, slashedCount, reason, error, retryAfter) ==
    [pc           |-> pc,
     senderCommit |-> senderCommit,
     message      |-> message,
     slashedCount |-> slashedCount,
     reason       |-> reason,
     error        |-> error,
     retryAfter   |-> retryAfter]
NoCall == call("idle", "none", "none", 0, "none", "none", 0)

Init ==
    /\ now = 1
    /\ running = TRUE
    /\ bonds = {}
    /\ bond_meta = <<>>
    /\ sender_reputation = [s \in Senders |-> [totalBonds |-> 0, slashedCount |-> 0]]
    /\ safety_pools = [c \in Cards |-> 0]
    /\ slashed_bonds = {}
    /\ queue = <<>>
    /\ attestations = {}
    /\ timers = <<>>
    /\ engage = {}
    /\ filed = {}
    /\ lastCall = returned("none", "none", NoBond, "none")
    /\ escrowUtxo = [b \in BondIds |-> "none"]
    /\ poolLovelace = 0
    /\ senderLovelace = 0
    /\ demoBonds = [d \in {"d1"} |-> "NONE"]
    /\ rate_limit = [s \in Senders |-> 0]
    /\ passed = [s \in Senders |-> 0]
    /\ msgKeys = {}
    /\ verification = NoVerification
    /\ evidence = {}
    /\ delivered = {}
    /\ receipts = {}
    /\ calls = [r \in Requests |-> NoCall]
    /\ redisUp = TRUE
    /\ accessLinks = [l \in Links |-> NoLink]
    /\ commits = {}
    /\ retry = NoRetry

\* the state one postBond after Init: sender s1 holds a bond on card c1
InitRequests ==
    \E cardId \in Cards, senderCommit \in Senders :
        LET bondId == legacyGetBondId(cardId, senderCommit)
        IN  /\ now = 1
            /\ running = TRUE
            /\ bonds = {bondId}
            /\ bond_meta = (bondId :> [cardId       |-> cardId,
                                       senderCommit |-> senderCommit,
                                       amount       |-> minBondAmount(cardId),
                                       postedAt     |-> 1,
                                       expiresAt    |-> 2,
                                       state        |-> "POSTED"])
            /\ sender_reputation = [s \in Senders |-> [totalBonds |-> 0, slashedCount |-> 0]]
            /\ safety_pools = [c \in Cards |-> 0]
            /\ slashed_bonds = {}
            /\ queue = <<>>
            /\ attestations = {}
            /\ timers = <<>>
            /\ engage = {}
            /\ filed = {}
            /\ lastCall = returned("none", "none", NoBond, "none")
            /\ escrowUtxo = [b \in BondIds |-> "none"]
            /\ poolLovelace = 0
            /\ senderLovelace = 0
            /\ demoBonds = [d \in {"d1"} |-> "NONE"]
            /\ rate_limit = [s \in Senders |-> 0]
            /\ passed = [s \in Senders |-> 0]
            /\ msgKeys = {}
            /\ verification = NoVerification
            /\ evidence = {}
            /\ delivered = {}
            /\ receipts = {}
            /\ calls = [r \in Requests |-> NoCall]
            /\ redisUp = TRUE
            /\ accessLinks = [l \in Links |-> NoLink]
            /\ commits = {}
            /\ retry = NoRetry

\* the clock advances
Tick ==
    /\ now < MaxTime
    /\ now' = now + 1
    /\ UNCHANGED <<running, ledgerVars, relayVars, lastCall, bridgeVars, demoBonds, demoVars, retry, msgVars>>

\* the ledger updates of the postBond circuit
postBond(bondId, cardId, senderCommit, amount, ttl) ==
    /\ bonds' = bonds \cup {bondId}
    /\ bond_meta' = bond_meta @@
           (bondId :> [cardId       |-> cardId,
                       senderCommit |-> senderCommit,
                       amount       |-> amount,
                       postedAt     |-> now,
                       expiresAt    |-> now + ttl,
                       state        |-> "POSTED"])
    /\ UNCHANGED <<sender_reputation, safety_pools, slashed_bonds>>

\* contract.postBond({cardId, amount, ttl}) by a sender
PostBond ==
    \E cardId \in Cards, senderCommit \in Senders, amount \in Amounts, ttl \in TTLs :
        /\ Cardinality(bonds) < MaxBonds
        /\ postBondResult(cardId, senderCommit, amount) = "ok"
        /\ \E bondId \in generateBondId(cardId, senderCommit, now) :
               postBond(bondId, cardId, senderCommit, amount, ttl)
        /\ UNCHANGED <<now, running, relayVars, lastCall, bridgeVars, demoBonds, demoVars, retry, msgVars>>

\* contract.postBond({cardId, amount, ttl}) with what the caller gets back: the
\* new bond, or the message of the require that failed
LedgerAmounts == {2, 3, 30}
MaxLedgerBonds == 2
ContractPostBond ==
    \E cardId \in Cards, senderCommit \in Senders, amount \in LedgerAmounts, ttl \in TTLs :
        LET result == postBondResult(cardId, senderCommit, amount)
        IN  /\ Cardinality(bonds) < MaxLedgerBonds
            /\ IF result = "ok"
               THEN \E bondId \in generateBondId(cardId, senderCommit, now) :
                        /\ postBond(bondId, cardId, senderCommit, amount, ttl)
                        /\ lastCall' = returned("postBond", senderCommit, bondId, "ok")
               ELSE /\ UNCHANGED ledgerVars
                    /\ lastCall' = returned("postBond", senderCommit, NoBond, result)
            /\ UNCHANGED <<now, running, relayVars, bridgeVars, demoBonds, demoVars, retry, msgVars>>

\* contract.slashBond(bondId, evidenceHash, senderNull) signed by a wallet
\* (Scenario 2 of pages/index.js, the scenario tests)
OwnerSlashBond ==
    \E bondId \in bonds, caller \in {"admin", "stranger"} :
        /\ slashBond(bondId, caller)
        /\ lastCall' = returned("slashBond", caller, bondId, slashBondResult(bondId, caller))
        /\ UNCHANGED <<now, running, relayVars, bridgeVars, demoBonds, demoVars, retry, msgVars>>

(***************************************************************************)
(* Queue-backed relay (NoirCardRelay with Bull and Redis).                 *)
(***************************************************************************)
\* verifyAttestorAuthorization: getCardAdmin, then isAuthorizedGuardian; a
\* failed lookup is caught and returns false
verifyAttestorAuthorization(cardId, attestor, lookupOk) ==
    lookupOk /\ attestor \in {"admin", "guardian"}

\* generateAttestationId: sha256(`${bondId}:${evidenceHash}:${attestor}:${Date.now()}`)
generateAttestationId(bondId, attestor, t) == <<bondId, attestor, DateNow(t)>>

\* Bull: exponential backoff, delay * 2^(attemptsMade - 1)
RECURSIVE Pow2(_)
Pow2(n) == IF n <= 0 THEN 1 ELSE 2 * Pow2(n - 1)
backoff(attemptsMade) == BackoffDelay * Pow2(attemptsMade - 1)

\* state of the bond an identifier names, as seen when an attestation is filed
stateOf(bondId) == IF bondId \in bonds THEN bond_meta[bondId].state ELSE "none"

\* the AttestationResult with success: true
attestationResult(bondId, cardId, senderCommit, t, challengeEndTime) ==
    [bondId           |-> bondId,
     cardId           |-> cardId,
     senderCommit     |-> senderCommit,
     filedAt          |-> t,
     challengeEndTime |-> challengeEndTime,
     bondState        |-> stateOf(bondId)]

\* attestAbuse(cardId, senderCommit, evidenceHash, attestor, challengeWindowHours)
attestAbuse(cap) ==
    \E cardId \in Cards, senderCommit \in Senders, attestor \in Attestors,
       window \in ChallengeWindows, lookupOk \in BOOLEAN,
       redis \in {"ok", "addFails", "setexFails"} :
        /\ running
        /\ Len(queue) < cap
        /\ IF ~verifyAttestorAuthorization(cardId, attestor, lookupOk)
           THEN /\ lastCall' = returned("attestAbuse", attestor, NoBond, "UNAUTHORIZED_ATTESTOR")
                /\ UNCHANGED <<queue, attestations, filed>>
           ELSE LET bondId == getBondId(cardId, senderCommit, now)
                    challengeEndTime == now + window
                    attestationId == generateAttestationId(bondId, attestor, now)
                    job == [bondId        |-> bondId,
                            cardId        |-> cardId,
                            senderCommit  |-> senderCommit,
                            attestationId |-> attestationId,
                            timestamp     |-> now,
                            due           |-> challengeEndTime,
                            attemptsMade  |-> 0,
                            status        |-> "delayed",
                            failedReason  |-> "none"]
                IN  IF redis = "addFails"
                    THEN /\ lastCall' = returned("attestAbuse", attestor, NoBond, "ATTESTATION_ERROR")
                         /\ UNCHANGED <<queue, attestations, filed>>
                    ELSE IF redis = "setexFails"
                    THEN /\ queue' = Append(queue, job)
                         /\ lastCall' = returned("attestAbuse", attestor, NoBond, "ATTESTATION_ERROR")
                         /\ UNCHANGED <<attestations, filed>>
                    ELSE /\ queue' = Append(queue, job)
                         /\ attestations' = attestations \cup
                                {[attestationId    |-> attestationId,
                                  bondId           |-> bondId,
                                  challengeEndTime |-> challengeEndTime,
                                  keyExpiresAt     |-> challengeEndTime + 1]}
                         /\ filed' = filed \cup
                                {attestationResult(bondId, cardId, senderCommit, now,
                                                   challengeEndTime)}
                         /\ lastCall' = returned("attestAbuse", attestor, bondId, "ok")
        /\ UNCHANGED <<now, running, ledgerVars, timers, engage, bridgeVars, demoBonds, demoVars, retry, msgVars>>

AttestAbuse == attestAbuse(MaxJobs)
\* the same call, followed for a second attestation
AttestAbuseAgain == attestAbuse(MaxAttestations)

\* Bull settles a job after processBondSlashing returned or threw
settleJob(job, result, t) ==
    IF result = "ok"
    THEN [job EXCEPT !.status = "completed"]
    ELSE IF job.attemptsMade + 1 >= JobAttempts
    THEN [job EXCEPT !.attemptsMade = @ + 1, !.status = "failed", !.failedReason = result]
    ELSE [job EXCEPT !.attemptsMade = @ + 1, !.due = t + backoff(job.attemptsMade + 1),
                     !.failedReason = result]

\* processBondSlashing(job): one call of the ledger's slashBond, rethrown on failure
ProcessBondSlashing ==
    \E i \in 1..Len(queue), ledgerUp \in BOOLEAN :
        LET job == queue[i]
            result == IF ledgerUp THEN slashBondResult(job.bondId, "relay") ELSE "Unavailable"
        IN  /\ running
            /\ job.status = "delayed"
            /\ job.due <= now
            /\ IF ledgerUp THEN slashBond(job.bondId, "relay") ELSE UNCHANGED ledgerVars
            /\ lastCall' = returned("processBondSlashing", "relay", job.bondId, result)
            /\ queue' = [queue EXCEPT ![i] = settleJob(job, result, now)]
            /\ UNCHANGED <<now, running, attestations, timers, engage, filed,
                           bridgeVars, demoBonds, demoVars, retry, msgVars>>

\* handleRecipientEngagement guard: now <= bond.expiresAt && !bond.refunded && !bond.slashed
\* (the queue-backed relay takes now = Date.now(), the timer-backed one seconds)
engagementNow(relay, t) == IF relay = "queue" THEN DateNow(t) ELSE NowSeconds(t)

engagementBondId(relay, cardId, senderCommit, t) ==
    IF relay = "queue" THEN getBondId(cardId, senderCommit, t)
    ELSE legacyGetBondId(cardId, senderCommit)

shouldRefund(relay, bondId, t) ==
    /\ bondId \in bonds
    /\ engagementNow(relay, t) <= getBond(bondId).expiresAt
    /\ ~getBond(bondId).refunded
    /\ ~getBond(bondId).slashed

\* handleRecipientEngagement up to the await of refundBond
handleRecipientEngagement(relay) ==
    \E cardId \in Cards, senderCommit \in Senders :
        LET bondId == engagementBondId(relay, cardId, senderCommit, now)
        IN  /\ running
            /\ Cardinality(engage) < MaxEngage
            /\ IF shouldRefund(relay, bondId, now)
               THEN engage' = engage \cup {[relay |-> relay, bondId |-> bondId]}
               ELSE UNCHANGED engage
            /\ UNCHANGED <<now, running, ledgerVars, queue, attestations, timers, filed,
                           lastCall, bridgeVars, demoBonds, demoVars, retry, msgVars>>

QueueEngagement == handleRecipientEngagement("queue")

TimerEngagement == handleRecipientEngagement("timer")

\* the refundBond call of handleRecipientEngagement reaches the ledger
EngagementRefund ==
    \E e \in engage :
        /\ running
        /\ refundBond(e.bondId)
        /\ lastCall' = returned("handleRecipientEngagement", "relay", e.bondId, refundBondResult(e.bondId))
        /\ engage' = engage \ {e}
        /\ UNCHANGED <<now, running, queue, attestations, timers, filed,
                       bridgeVars, demoBonds, demoVars, retry, msgVars>>

\* the relay process dies: timers and calls in flight are lost, Redis is kept
Crash ==
    /\ running
    /\ running' = FALSE
    /\ timers' = <<>>
    /\ engage' = {}
    /\ UNCHANGED <<now, ledgerVars, queue, attestations, filed, lastCall,
                   bridgeVars, demoBonds, demoVars, retry, msgVars>>

\* constructor: the queue processor is registered again
Restart ==
    /\ ~running
    /\ running' = TRUE
    /\ UNCHANGED <<now, ledgerVars, relayVars, lastCall, bridgeVars, demoBonds, demoVars, retry, msgVars>>

(***************************************************************************)
(* Timer-backed relay (relay/RelayService.ts).                             *)
(***************************************************************************)
\* verifyAttestorAuthorization: return true
legacyVerifyAttestorAuthorization(cardId, attestor) == TRUE

\* freezeBond: console.log only, the ledger is not called
freezeBond(bondId) == UNCHANGED ledgerVars

\* handleAbuseAttestation: freezeBond, then scheduleSlashing with setTimeout
HandleAbuseAttestation ==
    \E cardId \in Cards, senderCommit \in Senders, attestor \in Attestors :
        LET bondId == legacyGetBondId(cardId, senderCommit)
            challengeEndTime == now + LegacyChallengeWindow
        IN  /\ running
            /\ Len(timers) < MaxTimers
            /\ Cardinality(filed) < MaxTimers
            /\ legacyVerifyAttestorAuthorization(cardId, attestor)
            /\ freezeBond(bondId)
            /\ timers' = Append(timers, [bondId |-> bondId, due |-> challengeEndTime])
            /\ filed' = filed \cup
                   {attestationResult(bondId, cardId, senderCommit, now, challengeEndTime)}
            /\ lastCall' = returned("attestAbuse", attestor, bondId, "ok")
            /\ UNCHANGED <<now, running, queue, attestations, engage, bridgeVars, demoBonds, demoVars, retry, msgVars>>

\* a timer that fired is gone
removeAt(seq, i) == SubSeq(seq, 1, i - 1) \o SubSeq(seq, i + 1, Len(seq))

\* the setTimeout callback of scheduleSlashing: slashBond, errors logged
TimerFire ==
    \E i \in 1..Len(timers), ledgerUp \in BOOLEAN :
        LET tm == timers[i]
            result == IF ledgerUp THEN slashBondResult(tm.bondId, "relay") ELSE "Unavailable"
        IN  /\ running
            /\ tm.due <= now
            /\ IF ledgerUp THEN slashBond(tm.bondId, "relay") ELSE UNCHANGED ledgerVars
            /\ lastCall' = returned("scheduleSlashing", "relay", tm.bondId, result)
            /\ timers' = removeAt(timers, i)
            /\ UNCHANGED <<now, running, queue, attestations, engage, filed,
                           bridgeVars, demoBonds, demoVars, retry, msgVars>>

(***************************************************************************)
(* SelectConnectDemo.                                                      *)
(***************************************************************************)
\* postBond: this.bonds.set(bondId, {..., state: 'ACTIVE'})
DemoPostBond ==
    \E d \in DOMAIN demoBonds :
        /\ demoBonds[d] = "NONE"
        /\ demoBonds' = [demoBonds EXCEPT ![d] = "ACTIVE"]
        /\ UNCHANGED <<now, running, ledgerVars, relayVars, lastCall, bridgeVars, msgVars,
                       demoVars, retry>>

\* reportSpam: bond.state = 'SLASHED' whatever the state was
DemoReportSpam ==
    \E d \in DOMAIN demoBonds :
        /\ demoBonds[d] # "NONE"
        /\ demoBonds' = [demoBonds EXCEPT ![d] = "SLASHED"]
        /\ UNCHANGED <<now, running, ledgerVars, relayVars, lastCall, bridgeVars, msgVars,
                       demoVars, retry>>

\* generateAccessLink(bondId, recipientApproval): a link at level 0 that
\* expires 7 days (one tick) later; null when the recipient declines
LinkLifetime == 1
RequestedLevels == -1 .. 4

DemoGenerateAccessLink ==
    \E d \in DOMAIN demoBonds, l \in Links, recipientApproval \in BOOLEAN :
        /\ demoBonds[d] # "NONE"
        /\ recipientApproval
        /\ accessLinks[l] = NoLink
        /\ accessLinks' = [accessLinks EXCEPT ![l] =
                              [expiresAt    |-> DateNow(now) + DateNow(LinkLifetime),
                               currentLevel |-> 0,
                               isRevoked    |-> FALSE]]
        /\ lastCall' = returned("generateAccessLink", "recipient", NoBond, "ok")
        /\ UNCHANGED <<now, running, ledgerVars, relayVars, bridgeVars, demoBonds, msgVars,
                       commits, retry>>

\* what accessNextLevel(linkId, requestedLevel) throws, or "ok"; levelData of
\* a level below 0 is undefined and reading its data throws
accessNextLevelResult(l, requestedLevel, t) ==
    IF accessLinks[l] = NoLink THEN "Access link not found"
    ELSE IF accessLinks[l].isRevoked THEN "Access link has been revoked"
    ELSE IF DateNow(t) > accessLinks[l].expiresAt THEN "Access link has expired"
    ELSE IF requestedLevel > 3 THEN "Invalid level requested"
    ELSE IF requestedLevel < 0 THEN "TypeError"
    ELSE "ok"

\* accessNextLevel: link.currentLevel = Math.max(link.currentLevel, requestedLevel)
DemoAccessNextLevel ==
    \E l \in Links, requestedLevel \in RequestedLevels :
        LET result == accessNextLevelResult(l, requestedLevel, now)
        IN  /\ accessLinks' =
                   IF result \in {"ok", "TypeError"}
                   THEN [accessLinks EXCEPT ![l].currentLevel =
                            IF requestedLevel > @ THEN requestedLevel ELSE @]
                   ELSE accessLinks
            /\ lastCall' = returned("accessNextLevel", "recipient", NoBond, result)
            /\ UNCHANGED <<now, running, ledgerVars, relayVars, bridgeVars, demoBonds,
                           msgVars, commits, retry>>


(***************************************************************************)
(* Cardano bridge (lib/mesh-connector.ts, MeshMidnightBridge).             *)
(***************************************************************************)
\* postADABond: lockADAInEscrow, then midnightAPI.postBond with the amount in lovelace
BridgePostADABond ==
    \E cardId \in Cards, senderCommit \in Senders, amountADA \in Amounts, ttl \in TTLs :
        LET amount == amountADA * LovelacePerADA
        IN  /\ Cardinality(bonds) < MaxBonds
            /\ postBondResult(cardId, senderCommit, amount) = "ok"
            /\ \E bondId \in generateBondId(cardId, senderCommit, now) :
                   /\ postBond(bondId, cardId, senderCommit, amount, ttl)
                   /\ escrowUtxo' = [escrowUtxo EXCEPT ![bondId] = "locked"]
                   /\ lastCall' = returned("postADABond", "bridge", bondId, "ok")
            /\ UNCHANGED <<now, running, relayVars, poolLovelace, senderLovelace, demoBonds, demoVars, retry, msgVars>>

\* findLockedUTxO(cardanoTxHash): the escrow output, while it is unspent
findLockedUTxO(bondId) == escrowUtxo[bondId] = "locked"

\* refundBond(bondId, cardanoTxHash): callCircuit('refundBond'), then spend the
\* locked UTxO and send its whole quantity to the wallet
BridgeRefundBond ==
    \E bondId \in bonds :
        LET approval == refundBondResult(bondId)
        IN  /\ escrowUtxo[bondId] # "none"
            /\ refundBond(bondId)
            /\ IF approval # "ok"
               THEN /\ lastCall' = returned("bridgeRefundBond", "bridge", bondId, approval)
                    /\ UNCHANGED bridgeVars
               ELSE IF ~findLockedUTxO(bondId)
               THEN /\ lastCall' = returned("bridgeRefundBond", "bridge", bondId,
                                            "Locked UTxO not found")
                    /\ UNCHANGED bridgeVars
               ELSE /\ escrowUtxo' = [escrowUtxo EXCEPT ![bondId] = "spent"]
                    /\ senderLovelace' = senderLovelace + bond_meta[bondId].amount
                    /\ lastCall' = returned("bridgeRefundBond", "bridge", bondId, "ok")
                    /\ UNCHANGED poolLovelace
            /\ UNCHANGED <<now, running, relayVars, demoBonds, demoVars, retry, msgVars>>

\* slashBond(bondId, cardanoTxHash, evidenceHash): callCircuit('slashBond'), then
\* spend the locked UTxO; halfToPool = slashAmount / 2n goes to the safety pool
BridgeSlashBond ==
    \E bondId \in bonds :
        LET authorization == slashBondResult(bondId, "admin")
            slashAmount == bond_meta[bondId].amount
            halfToPool == slashAmount \div 2
        IN  /\ escrowUtxo[bondId] # "none"
            /\ slashBond(bondId, "admin")
            /\ IF authorization # "ok"
               THEN /\ lastCall' = returned("bridgeSlashBond", "bridge", bondId, authorization)
                    /\ UNCHANGED bridgeVars
               ELSE IF ~findLockedUTxO(bondId)
               THEN /\ lastCall' = returned("bridgeSlashBond", "bridge", bondId,
                                            "Locked UTxO not found")
                    /\ UNCHANGED bridgeVars
               ELSE /\ escrowUtxo' = [escrowUtxo EXCEPT ![bondId] = "spent"]
                    /\ poolLovelace' = poolLovelace + halfToPool
                    /\ lastCall' = returned("bridgeSlashBond", "bridge", bondId, "ok")
                    /\ UNCHANGED senderLovelace
            /\ UNCHANGED <<now, running, relayVars, demoBonds, demoVars, retry, msgVars>>

(***************************************************************************)
(* Message verification and forwarding (both relays).                      *)
(***************************************************************************)
Messages == {"m1"}
MaxRequests == 11
MaxQueueRequests == 2

\* hasActiveBond(cardId, senderCommit) of the ledger: a non-terminal bond that
\* has not passed its expiry
hasActiveBond(cardId, senderCommit, t) ==
    \E b \in bonds :
        /\ bond_meta[b].cardId = cardId
        /\ bond_meta[b].senderCommit = senderCommit
        /\ bond_meta[b].state \notin Terminal
        /\ t <= bond_meta[b].expiresAt

\* isRateLimited of the queue-backed relay: maxRequests = 10, or
\* Math.max(1, 10 - slashedCount * 2) once slashedCount > 0
BaseQuota == 10
QuotaStep == 2
maxRequests(reputation) ==
    IF reputation.slashedCount > 0
    THEN (IF BaseQuota - reputation.slashedCount * QuotaStep > 1
          THEN BaseQuota - reputation.slashedCount * QuotaStep ELSE 1)
    ELSE BaseQuota

\* currentCount >= maxRequests; a Redis error is caught and answers false
isRateLimited(senderCommit, reputation, redisOk) ==
    redisOk /\ rate_limit[senderCommit] >= maxRequests(reputation)

\* isRateLimited of the timer-backed relay reads bondCache, a Map that no code
\* of the class writes
bondCache == <<>>
LegacyRateInterval == 60
legacyIsRateLimited(senderCommit, reputation, t) ==
    LET cacheKey == <<"rate_limit", senderCommit>>
    IN  IF cacheKey \notin DOMAIN bondCache THEN FALSE
        ELSE DateNow(t) - bondCache[cacheKey].timestamp
                 < LegacyRateInterval * MsPerSecond * (1 + reputation.slashedCount)

\* getRateLimitRetryTime: Math.max(0, redis.ttl(key)), 3600 when Redis throws;
\* ttl answers the seconds the key has left (the whole window here) and -2 for
\* a key that is gone.  The timer-backed relay answers Date.now() + 60 * 1000
RateWindow == 3600
RedisNoKey == -2
redisTtl(senderCommit) ==
    IF rate_limit[senderCommit] > 0 THEN RateWindow ELSE RedisNoKey
getRateLimitRetryTime(relay, senderCommit, redisOk, t) ==
    IF relay = "timer" THEN DateNow(t) + LegacyRateInterval * MsPerSecond
    ELSE IF ~redisOk THEN RateWindow
    ELSE IF redisTtl(senderCommit) > 0 THEN redisTtl(senderCommit) ELSE 0

\* getRequiredBondAmount: the card policy's amount, "1000000" when the lookup
\* throws; the timer-backed relay answers "3000000"
DefaultRequiredBond == 1000000
LegacyRequiredBond == 3000000
getRequiredBondAmount(relay, cardId, senderCommit, policyOk) ==
    IF relay = "timer" THEN LegacyRequiredBond
    ELSE IF policyOk THEN minBondAmount(cardId)
    ELSE DefaultRequiredBond

\* verifyMessageSignature: not older than five minutes, not a duplicate, signed;
\* the timer-backed relay only compares the recovered address
verifyMessageSignature(relay, message, fresh, signed) ==
    IF relay = "timer" THEN signed
    ELSE fresh /\ message \notin msgKeys /\ signed

\* the order of the checks of verifyBondForMessage; a throw is caught and
\* answers VERIFICATION_ERROR
verifyBondResult_FailOpen(lookupOk, active, limited, messageValid) ==
    IF lookupOk /\ ~active THEN "NO_ACTIVE_BOND"
    ELSE IF limited THEN "RATE_LIMITED"
    ELSE IF ~messageValid THEN "INVALID_SIGNATURE"
    ELSE "verified"

verifyBondResult(lookupOk, active, limited, messageValid) ==
    IF ~lookupOk THEN "VERIFICATION_ERROR"
    ELSE IF ~active THEN "NO_ACTIVE_BOND"
    ELSE IF limited THEN "RATE_LIMITED"
    ELSE IF ~messageValid THEN "INVALID_SIGNATURE"
    ELSE "verified"

\* verifyBondForMessage(cardId, senderCommit, messagePayload)
\* the outcomes with which a call got past isRateLimited and on to
\* verifyMessageSignature: isRateLimited is asked after the bond check has
\* passed, and a request it refuses returns before the signature check
reachedLimiter_BeforeBondCheck(reason) ==
    reason \in {"NO_ACTIVE_BOND", "INVALID_SIGNATURE", "verified"}

reachedLimiter(reason) == reason \in {"INVALID_SIGNATURE", "verified"}

verifyBondForMessage(relay, cap) ==
    \E cardId \in Cards, senderCommit \in Senders, message \in Messages,
       lookupOk \in BOOLEAN, policyOk \in BOOLEAN, fresh \in BOOLEAN, signed \in BOOLEAN,
       redis \in {"ok", "down", "limiterFails"} :
        LET reputation == getSenderReputation(senderCommit)
            limited == IF relay = "timer"
                       THEN legacyIsRateLimited(senderCommit, reputation, now)
                       ELSE isRateLimited(senderCommit, reputation, redis = "ok")
            reason == verifyBondResult(
                          lookupOk /\ (relay = "timer" \/ redis # "down"),
                          hasActiveBond(cardId, senderCommit, now),
                          limited,
                          verifyMessageSignature(relay, message, fresh, signed))
            active == hasActiveBond(cardId, senderCommit, now)
            passedLimiter == reachedLimiter(reason)
            bondId == IF relay = "timer" THEN legacyGetBondId(cardId, senderCommit)
                      ELSE getBondId(cardId, senderCommit, now)
        IN  /\ running
            /\ passed[senderCommit] < cap
            \* an input the call does not read is held at one value
            /\ relay = "timer" => redis = "ok"
            /\ redis = "limiterFails" => lookupOk /\ active
            /\ reason # "NO_ACTIVE_BOND" => policyOk
            /\ ~passedLimiter => fresh /\ signed
            /\ rate_limit' = IF passedLimiter /\ relay = "queue" /\ redis = "ok"
                             THEN [rate_limit EXCEPT ![senderCommit] = @ + 1]
                             ELSE rate_limit
            /\ passed' = IF passedLimiter
                         THEN [passed EXCEPT ![senderCommit] = @ + 1]
                         ELSE passed
            /\ msgKeys' = IF passedLimiter /\ relay = "queue" /\ fresh
                          THEN msgKeys \cup {message}
                          ELSE msgKeys
            /\ verification' = verificationResult(message, reason,
                                   IF reason = "verified" THEN bondId ELSE NoBond,
                                   IF reason = "NO_ACTIVE_BOND"
                                   THEN getRequiredBondAmount(relay, cardId, senderCommit, policyOk)
                                   ELSE 0,
                                   IF reason = "RATE_LIMITED"
                                   THEN getRateLimitRetryTime(relay, senderCommit, TRUE, now)
                                   ELSE 0)
            /\ UNCHANGED <<now, running, ledgerVars, relayVars, lastCall, bridgeVars,
                           demoBonds, demoVars, retry, evidence, delivered, receipts, callVars>>

VerifyBondForMessage == verifyBondForMessage("queue", MaxQueueRequests)
\* the same call, followed until the sender's quota is used up
VerifyBondForMessageToQuota == verifyBondForMessage("queue", MaxRequests)
LegacyVerifyBondForMessage == verifyBondForMessage("timer", MaxRequests)

\* forwardMessage(messagePayload, verificationResult): storeEvidence (Redis in
\* the queue-backed relay, a console line in the timer-backed one),
\* deliverToRecipient, the two receipts
forwardMessage(relay) ==
    \E senderCommit \in Senders, message \in Messages,
       storeOk \in BOOLEAN, channelOk \in BOOLEAN :
        /\ running
        /\ relay = "timer" => storeOk /\ channelOk
        /\ IF ~verification.verified
           THEN /\ lastCall' = returned("forwardMessage", senderCommit, NoBond,
                                        verification.reason)
                /\ UNCHANGED <<evidence, delivered, receipts>>
           ELSE IF ~storeOk
           THEN /\ lastCall' = returned("forwardMessage", senderCommit, NoBond,
                                        "FORWARDING_ERROR")
                /\ UNCHANGED <<evidence, delivered, receipts>>
           ELSE /\ evidence' = IF relay = "queue" THEN evidence \cup {message} ELSE evidence
                /\ delivered' = IF channelOk THEN delivered \cup {message} ELSE delivered
                /\ receipts' = receipts \cup {message}
                /\ lastCall' = returned("forwardMessage", senderCommit, NoBond, "ok")
        /\ UNCHANGED <<now, running, ledgerVars, relayVars, bridgeVars, demoBonds, demoVars, retry,
                       rate_limit, passed, msgKeys, verification, callVars>>

ForwardMessage == forwardMessage("queue")
LegacyForwardMessage == forwardMessage("timer")

\* Redis drops msg:<messageHash> 300 seconds after it was set
MessageKeyExpires ==
    \E message \in msgKeys :
        /\ msgKeys' = msgKeys \ {message}
        /\ UNCHANGED <<now, running, ledgerVars, relayVars, lastCall, bridgeVars, demoBonds, demoVars, retry,
                       rate_limit, passed, verification, evidence, delivered, receipts,
                       callVars>>

\* an hour without a request: Redis drops rate_limit:<senderCommit>, a new
\* window starts
WindowElapses ==
    \E senderCommit \in Senders :
        /\ passed[senderCommit] > 0
        /\ rate_limit' = [rate_limit EXCEPT ![senderCommit] = 0]
        /\ passed' = [passed EXCEPT ![senderCommit] = 0]
        /\ UNCHANGED <<now, running, ledgerVars, relayVars, lastCall, bridgeVars, demoBonds, demoVars, retry,
                       msgKeys, verification, evidence, delivered, receipts, callVars>>

(***************************************************************************)
(* verifyBondForMessage of the queue-backed relay, one step per await that *)
(* touches Redis, for calls that run side by side.                         *)
(***************************************************************************)
finish(r, reason, error, retryAfter) ==
    calls' = [calls EXCEPT ![r] =
                 call("done", calls[r].senderCommit, calls[r].message, 0,
                      reason, error, retryAfter)]

\* redis.get(cacheKey), hasActiveBond, getSenderReputation
BeginVerification ==
    \E r \in Requests, cardId \in Cards, senderCommit \in Senders, message \in Messages,
       lookupOk \in BOOLEAN :
        LET reason == verifyBondResult(redisUp /\ lookupOk,
                                       hasActiveBond(cardId, senderCommit, now),
                                       FALSE, TRUE)
        IN  /\ running
            /\ calls[r].pc \in {"idle", "done"}
            /\ passed[senderCommit] < MaxRequests
            /\ ~redisUp => lookupOk
            /\ calls' = [calls EXCEPT ![r] =
                   IF reason = "verified"
                   THEN call("limiter", senderCommit, message,
                             getSenderReputation(senderCommit).slashedCount,
                             "none", "none", 0)
                   ELSE call("done", senderCommit, message, 0, reason,
                             IF reason # "VERIFICATION_ERROR" THEN "none"
                             ELSE IF ~redisUp THEN "redis" ELSE "ledger",
                             0)]
            /\ UNCHANGED <<now, running, ledgerVars, relayVars, lastCall, bridgeVars,
                           demoBonds, demoVars, retry, rate_limit, passed, msgKeys, verification, evidence,
                           delivered, receipts, redisUp>>

\* isRateLimited: redis.get(rateLimitKey) and the comparison with maxRequests;
\* a Redis error is caught and answers false
LimiterGet ==
    \E r \in Requests :
        /\ calls[r].pc = "limiter"
        /\ IF ~redisUp
           THEN /\ calls' = [calls EXCEPT ![r].pc = "signature"]
                /\ passed' = [passed EXCEPT ![calls[r].senderCommit] = @ + 1]
           ELSE /\ calls' = [calls EXCEPT ![r].pc =
                                IF isRateLimited(calls[r].senderCommit,
                                                 reputationWith(calls[r].slashedCount), TRUE)
                                THEN "retry" ELSE "incr"]
                /\ UNCHANGED passed
        /\ UNCHANGED <<now, running, ledgerVars, relayVars, lastCall, bridgeVars, demoBonds, demoVars, retry,
                       rate_limit, msgKeys, verification, evidence, delivered, receipts,
                       redisUp>>

\* isRateLimited: redis.multi().incr(rateLimitKey).expire(rateLimitKey, 3600).exec()
LimiterIncr ==
    \E r \in Requests :
        /\ calls[r].pc = "incr"
        /\ calls' = [calls EXCEPT ![r].pc = "signature"]
        /\ passed' = [passed EXCEPT ![calls[r].senderCommit] = @ + 1]
        /\ rate_limit' = IF redisUp
                         THEN [rate_limit EXCEPT ![calls[r].senderCommit] = @ + 1]
                         ELSE rate_limit
        /\ UNCHANGED <<now, running, ledgerVars, relayVars, lastCall, bridgeVars, demoBonds, demoVars, retry,
                       msgKeys, verification, evidence, delivered, receipts, redisUp>>

\* the refusal: retryAfter from getRateLimitRetryTime
RetryTime ==
    \E r \in Requests :
        /\ calls[r].pc = "retry"
        /\ finish(r, "RATE_LIMITED", "none",
                  getRateLimitRetryTime("queue", calls[r].senderCommit, redisUp, now))
        /\ UNCHANGED <<now, running, ledgerVars, relayVars, lastCall, bridgeVars, demoBonds, demoVars, retry,
                       rate_limit, passed, msgKeys, verification, evidence, delivered,
                       receipts, redisUp>>

\* verifyMessageSignature: the age of the message, then redis.exists(duplicateKey)
SignatureExists ==
    \E r \in Requests, fresh \in BOOLEAN :
        /\ calls[r].pc = "signature"
        /\ IF ~fresh \/ ~redisUp \/ calls[r].message \in msgKeys
           THEN finish(r, "INVALID_SIGNATURE", "none", 0)
           ELSE calls' = [calls EXCEPT ![r].pc = "setex"]
        /\ UNCHANGED <<now, running, ledgerVars, relayVars, lastCall, bridgeVars, demoBonds, demoVars, retry,
                       rate_limit, passed, msgKeys, verification, evidence, delivered,
                       receipts, redisUp>>

\* verifyMessageSignature: redis.setex(duplicateKey, 300, '1') and the signature;
\* then the cache write and the answer
SignatureSetex ==
    \E r \in Requests, signed \in BOOLEAN :
        /\ calls[r].pc = "setex"
        /\ IF ~redisUp
           THEN /\ finish(r, "INVALID_SIGNATURE", "none", 0)
                /\ UNCHANGED msgKeys
           ELSE /\ msgKeys' = msgKeys \cup {calls[r].message}
                /\ finish(r, IF signed THEN "verified" ELSE "INVALID_SIGNATURE", "none", 0)
        /\ UNCHANGED <<now, running, ledgerVars, relayVars, lastCall, bridgeVars, demoBonds, demoVars, retry,
                       rate_limit, passed, verification, evidence, delivered, receipts,
                       redisUp>>

\* the Redis server goes away and comes back
RedisFails ==
    /\ redisUp
    /\ redisUp' = FALSE
    /\ UNCHANGED <<now, running, ledgerVars, relayVars, lastCall, bridgeVars, demoBonds, demoVars, retry,
                   rate_limit, passed, msgKeys, verification, evidence, delivered,
                   receipts, calls>>

RedisRecovers ==
    /\ ~redisUp
    /\ redisUp' = TRUE
    /\ UNCHANGED <<now, running, ledgerVars, relayVars, lastCall, bridgeVars, demoBonds, demoVars, retry,
                   rate_limit, passed, msgKeys, verification, evidence, delivered,
                   receipts, calls>>

\* cleanupExpiredData, the relay's hourly cron job: deletes the Redis keys
\* attestation:* whose ttl is not positive, and logs the count
CleanupExpiredData ==
    /\ running
    /\ attestations' = {a \in attestations : a.keyExpiresAt > now}
    /\ lastCall' = returned("cleanupExpiredData", "relay", NoBond, "ok")
    /\ UNCHANGED <<now, running, ledgerVars, queue, timers, engage, filed, bridgeVars,
                   demoBonds, demoVars, retry, msgVars>>


(***************************************************************************)
(* Sender commitments.                                                     *)
(***************************************************************************)
\* createHash('sha256').update(data).digest('hex'): one value per input string
sha256(data) == <<"sha256", data>>

\* createHmac('sha256', key).update(a).update(b).digest('hex'): the updates
\* are fed to the hash one after the other, data is their concatenation
hmacSha256(key, data) == <<"hmac-sha256", key, data>>

\* a number in a string concatenation: its decimal digits
Digits == <<"0", "1", "2", "3", "4", "5", "6", "7", "8", "9">>
RECURSIVE numberToString(_)
numberToString(n) ==
    IF n < 10 THEN Digits[n + 1]
    ELSE numberToString(n \div 10) \o Digits[(n % 10) + 1]

CardIds == {"c1", "c12"}
SenderDids == {"x", "2x"}
Salts == {"k1", "k2"}
MaxCommits == 2

\* generateSenderCommitment(cardId, senderDid, salt): the timer-backed relay
\* hashes cardId + senderDid + salt, the queue-backed one keys an HMAC with
\* the salt and updates it with cardId, then senderDid
generateSenderCommitment(relay, cardId, senderDid, salt) ==
    IF relay = "timer"
    THEN sha256(cardId \o senderDid \o salt)
    ELSE hmacSha256(salt, cardId \o senderDid)

\* a commitment with what it was derived by and for
commitment(by, cardId, senderDid, salt, value) ==
    [by |-> by, cardId |-> cardId, senderDid |-> senderDid, salt |-> salt, value |-> value]

GenerateSenderCommitment ==
    \E relay \in {"queue", "timer"}, cardId \in CardIds, senderDid \in SenderDids,
       salt \in Salts :
        /\ Cardinality(commits) < MaxCommits
        /\ commits' = commits \cup
               {commitment(relay, cardId, senderDid, salt,
                           generateSenderCommitment(relay, cardId, senderDid, salt))}
        /\ UNCHANGED <<now, running, ledgerVars, relayVars, lastCall, bridgeVars, demoBonds,
                       msgVars, accessLinks, retry>>

\* POST /api/post-bond of the mock server: the card's minimum, then
\* senderCommit = sha256(cardId + Date.now()), kept in the new bond; the
\* request names no sender, senderDid is who sent it
MockPostBond ==
    \E cardId \in CardIds, senderDid \in SenderDids, amount \in Amounts,
       minBond \in Amounts :
        /\ Cardinality(commits) < MaxCommits
        /\ amount >= minBond
        /\ commits' = commits \cup
               {commitment("mock", cardId, senderDid, "none",
                           sha256(cardId \o numberToString(DateNow(now))))}
        /\ UNCHANGED <<now, running, ledgerVars, relayVars, lastCall, bridgeVars, demoBonds,
                       msgVars, accessLinks, retry>>


(***************************************************************************)
(* retryOperation of the queue-backed relay.                               *)
(***************************************************************************)
MAX_RETRIES == 3
RETRY_DELAY == 1000

\* the operations the relay wraps in retryOperation, and what they throw
Operations == {"hasActiveBond", "getSenderReputation", "getCardPolicy"}
Errors == {"timeout", "reverted"}

\* const delay = this.RETRY_DELAY * Math.pow(2, attempt - 1)
retryDelay_Constant(attempt) == RETRY_DELAY

retryDelay(attempt) == RETRY_DELAY * Pow2(attempt - 1)

\* a caller enters retryOperation: attempt = 1
RetryOperation ==
    \E operation \in Operations :
        /\ retry.pc \in {"idle", "returned", "thrown"}
        /\ retry' = [NoRetry EXCEPT !.pc = "try", !.operation = operation, !.attempt = 1]
        /\ UNCHANGED <<now, running, ledgerVars, relayVars, lastCall, bridgeVars, demoBonds,
                       msgVars, demoVars>>

\* one pass of the loop body: await operation(); on a throw, break at the
\* last attempt, start the wait otherwise
RetryAttempt ==
    \E ok \in BOOLEAN, error \in Errors :
        /\ retry.pc = "try"
        /\ retry' =
               IF ok
               THEN [retry EXCEPT !.pc = "returned", !.invoked = @ + 1]
               ELSE IF retry.attempt = MAX_RETRIES
               THEN [retry EXCEPT !.pc = "thrown", !.invoked = @ + 1, !.lastError = error]
               ELSE [retry EXCEPT !.pc = "wait", !.invoked = @ + 1, !.lastError = error,
                                  !.waited = Append(@, retryDelay(retry.attempt)),
                                  !.due = DateNow(now) + retryDelay(retry.attempt)]
        /\ UNCHANGED <<now, running, ledgerVars, relayVars, lastCall, bridgeVars, demoBonds,
                       msgVars, demoVars>>

\* the setTimeout of the wait fires: attempt++
RetryWaitEnds ==
    /\ retry.pc = "wait"
    /\ DateNow(now) >= retry.due
    /\ retry' = [retry EXCEPT !.pc = "try", !.attempt = @ + 1]
    /\ UNCHANGED <<now, running, ledgerVars, relayVars, lastCall, bridgeVars, demoBonds,
                   msgVars, demoVars>>


(***************************************************************************)
(* Specifications.  A deployment runs one of the two relays.               *)
(***************************************************************************)
\* ledger and queue-backed relay
Next ==
    \/ Tick
    \/ PostBond
    \/ OwnerSlashBond
    \/ AttestAbuse
    \/ ProcessBondSlashing
    \/ QueueEngagement
    \/ Crash
    \/ Restart

Spec == Init /\ [][Next]_vars

\* ledger, timer-backed relay and the demo
NextTimer ==
    \/ Tick
    \/ PostBond
    \/ OwnerSlashBond
    \/ HandleAbuseAttestation
    \/ TimerFire
    \/ TimerEngagement
    \/ EngagementRefund
    \/ Crash
    \/ Restart
    \/ DemoPostBond
    \/ DemoReportSpam

SpecTimer == Init /\ [][NextTimer]_vars

\* ledger and Cardano bridge
NextBridge ==
    \/ Tick
    \/ BridgePostADABond
    \/ BridgeRefundBond
    \/ BridgeSlashBond

SpecBridge == Init /\ [][NextBridge]_vars

\* the ledger on its own, and the demo
NextLedger ==
    \/ Tick
    \/ ContractPostBond
    \/ OwnerSlashBond
    \/ DemoPostBond
    \/ DemoReportSpam

SpecLedger == Init /\ [][NextLedger]_vars

\* ledger and the message path of the queue-backed relay
NextMessages ==
    \/ Tick
    \/ PostBond
    \/ OwnerSlashBond
    \/ VerifyBondForMessage
    \/ ForwardMessage
    \/ MessageKeyExpires
    \/ WindowElapses

SpecMessages == Init /\ [][NextMessages]_vars

\* ledger and the message path of the timer-backed relay
NextTimerMessages ==
    \/ Tick
    \/ PostBond
    \/ OwnerSlashBond
    \/ LegacyVerifyBondForMessage
    \/ LegacyForwardMessage
    \/ WindowElapses

SpecTimerMessages == Init /\ [][NextTimerMessages]_vars

\* verification calls of the queue-backed relay running side by side
NextRequests ==
    \/ BeginVerification
    \/ LimiterGet
    \/ LimiterIncr
    \/ RetryTime
    \/ SignatureExists
    \/ SignatureSetex
    \/ MessageKeyExpires
    \/ WindowElapses
    \/ RedisFails
    \/ RedisRecovers

SpecRequests == InitRequests /\ [][NextRequests]_vars

\* ledger, attestations and the queue-backed relay's cleanup job
NextCleanup ==
    \/ Tick
    \/ PostBond
    \/ AttestAbuse
    \/ CleanupExpiredData

SpecCleanup == Init /\ [][NextCleanup]_vars


\* commitments derived by the relays and by the mock server
NextCommit ==
    \/ Tick
    \/ GenerateSenderCommitment
    \/ MockPostBond

SpecCommit == Init /\ [][NextCommit]_vars


\* the demo's bonds and access links
NextLinks ==
    \/ Tick
    \/ DemoPostBond
    \/ DemoReportSpam
    \/ DemoGenerateAccessLink
    \/ DemoAccessNextLevel

SpecLinks == Init /\ [][NextLinks]_vars


\* one retryOperation call after the other
NextRetry ==
    \/ Tick
    \/ RetryOperation
    \/ RetryAttempt
    \/ RetryWaitEnds

SpecRetry == Init /\ [][NextRetry]_vars


\* one sender's requests to the queue-backed relay up to the quota
NextQuota ==
    \/ Tick
    \/ VerifyBondForMessageToQuota
    \/ MessageKeyExpires
    \/ WindowElapses

SpecQuota == InitRequests /\ [][NextQuota]_vars


\* attestations filed one after the other with the queue-backed relay
NextAttest ==
    \/ Tick
    \/ PostBond
    \/ AttestAbuseAgain

SpecAttest == Init /\ [][NextAttest]_vars


(***************************************************************************)
(* Properties.                                                             *)
(***************************************************************************)
resolved(b) == bond_meta[b].state \in {"SLASHED", "REFUNDED"}

becomesSlashed(b) == bond_meta[b].state # "SLASHED" /\ bond_meta'[b].state = "SLASHED"

slashRefused ==
    /\ lastCall' # lastCall
    /\ lastCall'.op \in {"slashBond", "scheduleSlashing", "processBondSlashing"}
    /\ lastCall'.result # "ok"

C2_TerminalStatesStay ==
    [][/\ \A b \in bonds :
            /\ b \in bonds'
            /\ bond_meta'[b].state \in BondStates
            /\ bond_meta[b].state \in Terminal => bond_meta'[b].state = bond_meta[b].state
       /\ \A d \in DOMAIN demoBonds :
            demoBonds[d] = "SLASHED" => demoBonds'[d] = "SLASHED"]_vars

\* C2 witness: the timer of an attestation ran slashBond on a refunded bond
C2_Witness ==
    \E b \in bonds :
        /\ bond_meta[b].state = "REFUNDED"
        /\ lastCall = returned("scheduleSlashing", "relay", b, "Bond not in POSTED state")

\* C3: in a race of a refund and the scheduled slash on one bond exactly one
\* of them moves the bond; the slash that comes second (ledger reachable)
\* changes nothing and is answered AlreadyResolved
C3_RaceLoserAlreadyResolved ==
    [][\A b \in bonds :
        (/\ lastCall' # lastCall
         /\ lastCall'.op = "scheduleSlashing"
         /\ lastCall'.bondId = b
         /\ lastCall'.result # "Unavailable"
         /\ bond_meta[b].state = "REFUNDED")
        => /\ lastCall'.result = "AlreadyResolved"
           /\ bond_meta'[b].state = "REFUNDED"]_vars

\* C4: once the slash job of a successful attestation has finished (completed,
\* or failed for a reason other than an unreachable ledger), the bond the
\* sender had posted on the card is SLASHED or REFUNDED
C4_AttestedBondResolved ==
    \A i \in 1..Len(queue) :
        LET job == queue[i]
        IN  (/\ job.status \in {"completed", "failed"}
             /\ job.failedReason # "Unavailable"
             /\ \E f \in filed : f.bondId = job.bondId /\ f.filedAt = job.timestamp)
            => \A b \in bonds :
                   (/\ bond_meta[b].cardId = job.cardId
                    /\ bond_meta[b].senderCommit = job.senderCommit
                    /\ bond_meta[b].postedAt <= job.timestamp)
                   => resolved(b)

\* C5: while the challenge window of a successful attestation has not elapsed,
\* its slash is still scheduled, whatever crashes and restarts happened
C5_JobSurvivesRestart ==
    \A f \in filed :
        f.challengeEndTime > now
        => \E i \in 1..Len(timers) :
               timers[i].bondId = f.bondId /\ timers[i].due = f.challengeEndTime

\* C6: when the scheduled slash of an attestation filed against a posted bond
\* has run (ledger reachable), the bond is SLASHED
C6_UndisputedAttestationSlashes ==
    \A f \in filed :
        (/\ f.bondState = "POSTED"
         /\ lastCall.op = "scheduleSlashing"
         /\ lastCall.bondId = f.bondId
         /\ lastCall.result # "Unavailable")
        => bond_meta[f.bondId].state = "SLASHED"

\* C7: a slash of a bond of amount a raises the sender's slashedCount by 1 and
\* the safety pool, on the ledger and in funds received, by a; nothing else
\* changes them
C7_SlashAccounting ==
    [][/\ \A b \in bonds :
            becomesSlashed(b) =>
              LET bond == bond_meta[b]
              IN  /\ sender_reputation'[bond.senderCommit].slashedCount =
                         sender_reputation[bond.senderCommit].slashedCount + 1
                  /\ safety_pools'[bond.cardId] = safety_pools[bond.cardId] + bond.amount
                  /\ poolLovelace' = poolLovelace + bond.amount
       /\ (\A b \in bonds : ~becomesSlashed(b)) =>
              UNCHANGED <<sender_reputation, safety_pools, poolLovelace>>]_vars

\* C8: when the bond of an attestation is refunded before challengeEndTime, the
\* pending slash of that attestation is cancelled
C8_RefundCancelsPendingSlash ==
    \A f \in filed :
        (/\ f.bondState = "POSTED"
         /\ now < f.challengeEndTime
         /\ bond_meta[f.bondId].state = "REFUNDED")
        => ~\E i \in 1..Len(timers) :
                timers[i].bondId = f.bondId /\ timers[i].due = f.challengeEndTime

\* C9: refundBond on a bond that is already REFUNDED succeeds and changes nothing
C9_RefundIdempotent ==
    [][\A b \in bonds :
        (/\ lastCall' # lastCall
         /\ lastCall'.op = "bridgeRefundBond"
         /\ lastCall'.bondId = b
         /\ bond_meta[b].state = "REFUNDED")
        => /\ lastCall'.result = "ok"
           /\ UNCHANGED <<ledgerVars, bridgeVars>>]_vars

\* C10: an execution of the slash job on a bond that is already SLASHED (ledger
\* reachable) changes nothing on the ledger and completes the job
C10_SlashJobIdempotent ==
    [][\A i \in 1..Len(queue) :
        (/\ queue[i].status = "delayed"
         /\ queue'[i] # queue[i]
         /\ queue'[i].failedReason # "Unavailable"
         /\ stateOf(queue[i].bondId) = "SLASHED")
        => /\ queue'[i].status = "completed"
           /\ UNCHANGED ledgerVars]_vars

\* C11: a slash job that gave up because slashBond kept failing was attempted
\* JobAttempts times, and the bond it names is still FROZEN
C11_ExhaustedJobLeavesBondFrozen ==
    \A i \in 1..Len(queue) :
        (/\ queue[i].status = "failed"
         /\ queue[i].failedReason = "Unavailable"
         /\ queue[i].bondId \in bonds)
        => /\ queue[i].attemptsMade = JobAttempts
           /\ bond_meta[queue[i].bondId].state = "FROZEN"

\* C12: right after an attestation was answered with success, the bond it names
\* is FROZEN and a slash is pending for it, due when the challenge window ends
C12_AttestedBondFrozen ==
    (/\ lastCall.op = "attestAbuse"
     /\ lastCall.result = "ok"
     /\ lastCall.bondId \in bonds)
    => /\ bond_meta[lastCall.bondId].state = "FROZEN"
       /\ \E i \in 1..Len(timers), f \in filed :
              /\ timers[i].bondId = lastCall.bondId
              /\ f.bondId = lastCall.bondId
              /\ timers[i].due = f.challengeEndTime

\* C13: an attestation filed by someone who is neither the card's admin nor one
\* of its guardians is refused as unauthorized and changes nothing
C13_UnauthorizedAttestorRefused ==
    [][(/\ lastCall' # lastCall
        /\ lastCall'.op = "attestAbuse"
        /\ lastCall'.caller \notin {"admin", "guardian"})
       => /\ lastCall'.result = "UNAUTHORIZED_ATTESTOR"
          /\ UNCHANGED <<ledgerVars, queue, attestations, timers, filed>>]_vars

\* C14: a verification answers verified only when the ledger reported an active
\* bond for the pair (a failed lookup answers unverified), and a forwardMessage
\* given an unverified result stores no evidence, delivers nothing and issues
\* no receipt
C14_DeliveredOnlyIfBondVerified ==
    [][/\ (verification' # verification /\ verification'.verified)
          => \E s \in Senders : passed'[s] = passed[s] + 1
       /\ (verification'.verified /\ \E s \in Senders : passed'[s] = passed[s] + 1)
          => hasActiveBond(verification'.bondId[1], verification'.bondId[2], now)
       /\ ~verification.verified => UNCHANGED <<evidence, delivered, receipts>>]_vars

C14_Witness ==
    /\ verification.verified
    /\ verification.message \in delivered
    /\ verification.message \in receipts
    /\ verification.message \in evidence

C16_QuoteFollowsReputation ==
    [][(/\ verification' # verification
        /\ verification'.reason = "NO_ACTIVE_BOND"
        /\ verification'.requiredBondAmount # DefaultRequiredBond)
       => \E cardId \in Cards, senderCommit \in Senders :
              verification'.requiredBondAmount =
                  minBondAmount(cardId) * (1 + getSenderReputation(senderCommit).slashedCount)]_vars

\* the bases and reputations the price is compared on
MaxSlashes == 3
PriceBases == {3, 5, 100}

C19_OwnerSlashSucceedsAtOnce ==
    [][/\ \A b \in bonds :
              (/\ lastCall' # lastCall
               /\ lastCall'.op = "slashBond"
               /\ lastCall'.caller = "admin"
               /\ lastCall'.bondId = b
               /\ bond_meta[b].state = "POSTED")
              => /\ lastCall'.result = "ok"
                 /\ bond_meta'[b].state = "SLASHED"
                 /\ sender_reputation'[bond_meta[b].senderCommit].slashedCount
                        = sender_reputation[bond_meta[b].senderCommit].slashedCount + 1
       /\ \A d \in DOMAIN demoBonds :
              (demoBonds[d] = "ACTIVE" /\ demoBonds'[d] # "ACTIVE")
              => demoBonds'[d] = "SLASHED"]_vars

\* a first offence
C19_Witness ==
    \E b \in bonds :
        /\ lastCall = returned("slashBond", "admin", b, "ok")
        /\ bond_meta[b].state = "SLASHED"
        /\ sender_reputation[bond_meta[b].senderCommit].slashedCount = 1
        /\ \E d \in DOMAIN demoBonds : demoBonds[d] = "SLASHED"

\* C20: within one window the rate limiter lets through at most
\* max(1, 10 - 2 * slashedCount) requests of a sender
C20_QuotaPerWindow ==
    [][\A senderCommit \in Senders :
           LET slashedCount == getSenderReputation(senderCommit).slashedCount
               quota == IF 10 - 2 * slashedCount > 1 THEN 10 - 2 * slashedCount ELSE 1
           IN  passed'[senderCommit] = passed[senderCommit] + 1
                   => passed[senderCommit] < quota]_vars

\* C21: a request refused because the sender's quota is used up is told a
\* strictly positive number of seconds to wait
C21_RefusalNamesPositiveWait ==
    \A r \in Requests :
        calls[r].pc = "done" /\ calls[r].reason = "RATE_LIMITED"
            => calls[r].retryAfter > 0

\* C22: however concurrent verifications of one sender interleave, the
\* requests the limiter lets through in a window, each counted once in the
\* sender's counter, never exceed the sender's quota
C22_CounterWithinQuota ==
    \A senderCommit \in Senders :
        rate_limit[senderCommit] <= maxRequests(getSenderReputation(senderCommit))

\* C23: an outage of the limiter's backing store blocks nobody: no
\* verification of a sender with an active bond ends refused because Redis
\* did not answer
C23_OutageBlocksNobody ==
    \A r \in Requests :
        calls[r].pc = "done" /\ (\E cardId \in Cards :
                                    hasActiveBond(cardId, calls[r].senderCommit, now))
            => calls[r].error # "redis"

\* C24: the freshness/replay check accepts a message at most once: no two
\* submissions of the same message are both verified
C24_MessageAcceptedOnce ==
    \A r1, r2 \in Requests :
        /\ r1 # r2
        /\ calls[r1].pc = "done" /\ calls[r1].reason = "verified"
        /\ calls[r2].pc = "done" /\ calls[r2].reason = "verified"
        => calls[r1].message # calls[r2].message

\* C25: the periodic expiry sweep refunds every bond that is POSTED or FROZEN
\* and past its TTL, and changes no other bond
C25_SweepRefundsExpiredBonds ==
    [][CleanupExpiredData =>
           \A b \in bonds :
               bond_meta'[b].state =
                   IF bond_meta[b].state \in {"POSTED", "FROZEN"} /\ now > bond_meta[b].expiresAt
                   THEN "REFUNDED"
                   ELSE bond_meta[b].state]_vars

\* C26: handleEngagement goes on to refund the sender's bond on the context
\* exactly when that bond is active (neither refunded nor slashed) and the
\* current time is not past its expiresAt
C26_EngagementRefundsActiveBond ==
    \A cardId \in Cards, senderCommit \in Senders :
        shouldRefund("queue", engagementBondId("queue", cardId, senderCommit, now), now)
            <=> \E b \in bonds :
                    /\ bond_meta[b].cardId = cardId
                    /\ bond_meta[b].senderCommit = senderCommit
                    /\ bond_meta[b].state \in {"POSTED", "FROZEN"}
                    /\ now <= bond_meta[b].expiresAt

\* C27: the sender commitment is a function of (card, sender identity, salt):
\* two commitments derived by the same component for the same sender on the
\* same card with the same salt are equal
C27_CommitmentDeterministic ==
    \A a, b \in commits :
        /\ a.by = b.by
        /\ a.cardId = b.cardId
        /\ a.senderDid = b.senderDid
        /\ a.salt = b.salt
        => a.value = b.value

\* C28: with the hash injective on its input, two commitments derived by a
\* relay with one salt for distinct (identity, card) pairs are distinct
C28_DistinctPairsDistinctCommitments ==
    \A a, b \in commits :
        /\ a.by = b.by
        /\ a.by \in {"queue", "timer"}
        /\ a.salt = b.salt
        /\ <<a.senderDid, a.cardId>> # <<b.senderDid, b.cardId>>
        => a.value # b.value

\* C29: every delivered message has an evidence record stored under its
\* evidence hash
C29_DeliveredHasEvidence ==
    delivered \subseteq evidence

\* C30: an access link reveals its levels in order: a step raises the
\* link's current level by at most one and never lowers it
C30_LevelsRevealedInOrder ==
    [][\A l \in Links :
           accessLinks[l] # NoLink
               => accessLinks'[l].currentLevel \in
                      {accessLinks[l].currentLevel, accessLinks[l].currentLevel + 1}]_vars

\* C31: retryOperation invokes the operation at most three times; it returns
\* at the first success; it has waited 1000 ms after the first failure and
\* 2000 ms after the second; after the third failure it throws the error
\* caught last without another wait
C31_RetryBounded ==
    LET backoffs == <<1000, 2000>>
    IN  /\ retry.invoked <= 3
        /\ Len(retry.waited) <= 2
        /\ \A k \in 1 .. Len(retry.waited) : retry.waited[k] = backoffs[k]
        /\ retry.pc = "returned"
               => retry.invoked = Len(retry.waited) + 1
        /\ retry.pc \in {"try", "wait"}
               => retry.invoked = Len(retry.waited)
        /\ retry.pc = "thrown"
               => /\ retry.invoked = 3
                  /\ retry.waited = backoffs
                  /\ retry.lastError \in Errors

C31_Witness ==
    /\ retry.pc = "thrown"
    /\ retry.invoked = 3
    /\ retry.waited = <<1000, 2000>>

\* C32: a verifyBondForMessage call refused with NO_ACTIVE_BOND leaves the
\* sender's rate-limit counter and the processed message hashes as they
\* were, and a call refused with RATE_LIMITED leaves the processed message
\* hashes as they were
C32_RefusalLeavesLaterChecksUntouched ==
    [][VerifyBondForMessageToQuota =>
           /\ verification'.reason = "NO_ACTIVE_BOND"
                  => rate_limit' = rate_limit /\ msgKeys' = msgKeys
           /\ verification'.reason = "RATE_LIMITED"
                  => msgKeys' = msgKeys]_vars

C32_Witness ==
    /\ verification.reason = "RATE_LIMITED"
    /\ \E senderCommit \in Senders : rate_limit[senderCommit] = BaseQuota
    /\ msgKeys = {}

\* C33: forwardMessage issues the sender's and the recipient's receipt for a
\* message only if the delivery to the recipient succeeded
C33_ReceiptsOnlyForDelivered ==
    receipts \subseteq delivered

\* C34: while an attestation is filed against a bond and its challenge window
\* is open, no engagement refunds the bond
C34_EngagementSparesAttestedBond ==
    [][\A f \in filed :
           (/\ f.bondId \in bonds
            /\ now < f.challengeEndTime
            /\ bond_meta[f.bondId].state # "REFUNDED")
           => bond_meta'[f.bondId].state # "REFUNDED"]_vars

\* C35: the relay's bond identifier for a (cardId, senderCommit) pair is
\* stable: two verifications of the one sender on the one card report the
\* same bond identifier
C35_BondIdStable ==
    [][verification.reason = "verified" /\ verification'.reason = "verified"
           => verification'.bondId = verification.bondId]_vars

\* C36: a message is recorded as processed only by the call that accepts it:
\* a call that ends with INVALID_SIGNATURE leaves no msg:<hash> key behind
C36_RejectedMessageNotRecorded ==
    [][\A message \in Messages :
           message \in msgKeys' /\ message \notin msgKeys
               => \E r \in Requests :
                      /\ calls[r].pc = "setex"
                      /\ calls'[r].pc = "done"
                      /\ calls'[r].message = message
                      /\ calls'[r].reason = "verified"]_vars

\* C37: an attestAbuse call answered with success = false leaves no slash
\* job queued and no attestation record stored
C37_FailedAttestationLeavesNothing ==
    [][(lastCall'.op = "attestAbuse" /\ lastCall'.result # "ok")
           => queue' = queue /\ attestations' = attestations]_vars

\* C38: at any time at most one slash job is pending for the bond of a
\* sender on a card
C38_OnePendingSlashPerBond ==
    \A i, j \in 1 .. Len(queue) :
        (/\ queue[i].status = "delayed"
         /\ queue[j].status = "delayed"
         /\ queue[i].cardId = queue[j].cardId
         /\ queue[i].senderCommit = queue[j].senderCommit)
        => i = j

\* C39: a message is delivered only while the sender holds an active bond on
\* the card
C39_DeliveredWhileBondActive ==
    [][\A message \in Messages :
           message \in delivered' /\ message \notin delivered
               => \E cardId \in Cards, senderCommit \in Senders :
                      hasActiveBond(cardId, senderCommit, now)]_vars

====
